---- MODULE Spec2Model ----
(***************************************************************************)
(* A model of scrape.py (TigerNet directory scraper): the SQLite-backed    *)
(* resumable store (SQLiteWriter), the crawl controller (scrape_directory) *)
(* and the lifecycle supervisor (signal_handler and the __main__ block).   *)
(*                                                                         *)
(* A profile URL is a number in Urls.  An email is a number in             *)
(* 0..NumEmails, 0 standing for the empty string "".  A row of the alumni  *)
(* table is a record [profile_url, email]; its AUTOINCREMENT id is its     *)
(* position in the sequence `rows`.                                        *)
(***************************************************************************)
EXTENDS Integers, Sequences, FiniteSets, TLC

\* ---------------------------------------------------------------- bounds
NumUrls    == 2      \* distinct profile URLs the site can expose
NumEmails  == 1      \* distinct non-empty emails a profile can yield
MaxPages   == 2      \* listing pages of the site
MaxAnchors == 2      \* /users/ anchors on one listing page
MaxTarget  == 2      \* largest --target-emails tried
MaxRuns    == 2      \* process runs against the same database file
NumAddrs   == 2      \* distinct email addresses on one profile page
MaxTextLen == 5      \* symbols of a text scanned for emails
MaxPlainLen == 6     \* symbols of such a text without obfuscation or capitals
MaxMailtos == 2      \* mailto anchors in the email blocks of a profile

Urls   == 1..NumUrls
Emails == 1..NumEmails
NoEmail == 0     \* the empty string "" of result["email"] (line 338)

SeqsUpTo(S, n) == UNION {[1..m -> S] : m \in 0..n}

Range(s) == {s[n] : n \in 1..Len(s)}

\* position of x in the sequence s, 0 when it is not there
Pos(s, x) == IF x \in Range(s) THEN CHOOSE n \in 1..Len(s) : s[n] = x ELSE 0

IsPrefix(a, b) == Len(a) <= Len(b) /\ SubSeq(b, 1, Len(a)) = a

\* the elements of s in their order, each at its first occurrence: the
\* seen / ordered_links loop of lines 309-327 (and lines 190-199)
RECURSIVE FirstSeen(_)
FirstSeen(s) ==
    IF s = <<>> THEN <<>>
    ELSE LET r == FirstSeen(SubSeq(s, 1, Len(s) - 1))
             x == s[Len(s)]
         IN IF x \in Range(r) THEN r ELSE Append(r, x)

\* every listing the site can serve: up to MaxPages pages of raw anchors
Listings == SeqsUpTo(SeqsUpTo(Urls, MaxAnchors), MaxPages)

VARIABLES
    listing,          \* the site: listing[p] = hrefs of the /users/ anchors of page p
    shown,            \* the listing page the browser currently displays
    rows,             \* committed rows of table alumni (the database file)
    pending,          \* rows inserted by the open connection, not yet committed
    conn,             \* writer.conn: "none" (no writer), "open", "closed"
    row_count,        \* writer.row_count
    existing_count,   \* writer.existing_count
    writer_instance,  \* global _writer_instance is not None
    interrupted,      \* global _interrupted
    run,              \* which process run this is
    pc,               \* position of the main thread
    exc,              \* exception in flight while the finally block runs
    target,           \* target_emails
    collected,        \* collected_emails
    page,             \* local `page` of scrape_directory (printed only)
    k,                \* index of the anchor collect_profile_links is at
    profile_links,    \* ordered_links / profile_links
    new_links,        \* new_links
    i,                \* index of the for loop over new_links
    data,             \* data["email"] returned by scrape_profile
    inserted,         \* result of writer.write_row
    sig,              \* a termination signal was delivered in this run
    acked,            \* history: URLs for which write_row returned True
    known,            \* history: URLs in the store when the page was filtered
    closeCalls,       \* history: calls of SQLiteWriter.close in this run
    closeErr,         \* history: a call of SQLiteWriter.close raised
    faultFree,        \* history: no signal, kill, load fault or empty email so far
    exhausted,        \* history: the listing timed out or returned no link
    lateClicks,       \* history: click_next_page calls made with the target reached
    storeFault,       \* history: a store operation raised a storage fault in this run
    START_PAGE,       \* global START_PAGE (lines 30, 785)
    END_PAGE,         \* global END_PAGE (lines 31, 786), NoEndPage for None
    op, arg, ret, raised,  \* last store operation, its argument, result, error
    fn, input, output,     \* a function called on its own: name, argument, result
    returned               \* that call has returned

storeVars == <<rows, pending, conn, row_count, existing_count>>
ctlVars   == <<run, pc, exc, target, collected, page, k, profile_links,
               new_links, i, data, inserted>>
envVars   == <<listing, shown>>
glbVars   == <<writer_instance, interrupted>>
histVars  == <<sig, acked, known, closeCalls, closeErr, faultFree, exhausted,
               lateClicks, storeFault>>
cfgVars   == <<START_PAGE, END_PAGE>>
apiVars   == <<op, arg, ret, raised>>
fnVars    == <<fn, input, output, returned>>
vars == <<storeVars, ctlVars, envVars, glbVars, histVars, cfgVars, apiVars,
          fnVars>>

\* ------------------------------------------------------ the alumni table
Row(u, e) == [profile_url |-> u, email |-> e]

UrlsOf(rs) == {rs[n].profile_url : n \in 1..Len(rs)}

\* what the connection's own cursor sees: committed rows, then its
\* uncommitted inserts
Visible(rs, pend) == rs \o pend

\* SELECT 1 FROM alumni WHERE profile_url = ?  ... fetchone() is not None
is_scraped_inverted(rs, u) == u \notin UrlsOf(rs)
is_scraped(rs, u) == u \in UrlsOf(rs)

\* INSERT INTO alumni ... under the UNIQUE constraint on profile_url:
\* TRUE when the statement raises sqlite3.IntegrityError
IntegrityError_never(rs, u) == FALSE
IntegrityError(rs, u) == u \in UrlsOf(rs)

\* conn.commit(): the uncommitted inserts reach the database file
commit_lost(rs, pend) == rs
commit(rs, pend) == rs \o pend

\* SELECT COUNT(*) FROM alumni
get_total_count(rs, pend) == Len(Visible(rs, pend))

NoDupUrls(rs) == \A m, n \in 1..Len(rs) :
                    rs[m].profile_url = rs[n].profile_url => m = n

\* SQLiteWriter.close: `if self.conn:` holds for every constructed writer
\* (conn is never reset and a Connection object is truthy), and
\* conn.commit() on a closed connection raises sqlite3.ProgrammingError
close_raises(c) == c # "open"

\* links of a listing page not yet in the store (line 644)
new_links_unfiltered(links, rs) == links
new_links_of(links, rs) == SelectSeq(links, LAMBDA l : ~is_scraped(rs, l))

\* `if not profile_links:` (line 639)
no_profiles_ignored(links) == FALSE
no_profiles(links) == links = <<>>

\* `if not new_links:` (line 648)
no_new_links_ignored(links) == FALSE
no_new_links(links) == links = <<>>

\* the guard of the while loop (line 625), TRUE when the body is entered
while_guard_no_target(intr, coll, tgt) == ~intr
while_guard(intr, coll, tgt) == ~intr /\ coll < tgt

\* the guard at the head of the for loop (line 659), TRUE when it breaks
for_break_no_target(intr, coll, tgt) == intr
for_break(intr, coll, tgt) == intr \/ coll >= tgt

\* `if data["email"]:` (line 664)
has_email_any(e) == TRUE
has_email(e) == e # NoEmail

\* where an Exception raised by scrape_profile or write_row takes the main
\* thread: the handlers of lines 687-690 print it, and line 693 is next
except_aborts == "finally"
except_profile == "back"

PageAt(p) == IF p \in DOMAIN listing THEN listing[p] ELSE <<>>

EndPcs == {"done", "exited", "killed"}

\* ------------------------------------------------- SQLiteWriter, called
\* directly: any sequence of write_row / is_scraped / close calls, and a
\* new SQLiteWriter on the same file after a close

idleCtl == /\ run = 0 /\ exc = "none" /\ collected = 0
           /\ page = 0 /\ k = 0 /\ profile_links = <<>> /\ new_links = <<>>
           /\ i = 0 /\ data = NoEmail /\ inserted = FALSE
idleHist == /\ sig = FALSE /\ acked = {} /\ known = {} /\ closeCalls = 0
            /\ closeErr = FALSE /\ faultFree = TRUE /\ exhausted = FALSE
            /\ lateClicks = 0 /\ storeFault = FALSE
idleApi == /\ op = "none" /\ arg = 0 /\ ret = "None" /\ raised = FALSE
idleFn == /\ fn = "none" /\ input = <<>> /\ output = <<>> /\ returned = FALSE

\* END_PAGE = None (line 31)
NoEndPage == 0

\* the module's values of START_PAGE and END_PAGE (lines 30-31), which
\* parse_args keeps as the defaults of --start-page and --end-page
defaultCfg == START_PAGE = 1 /\ END_PAGE = NoEndPage

\* SQLiteWriter.__init__ on an empty file, nothing else running
StoreInit ==
    /\ listing = <<>> /\ shown = 0
    /\ rows = <<>> /\ pending = <<>> /\ conn = "open"
    /\ row_count = 0 /\ existing_count = 0
    /\ writer_instance = FALSE /\ interrupted = FALSE
    /\ target = 1
    /\ pc = "api" /\ idleCtl /\ idleHist /\ idleApi /\ idleFn /\ defaultCfg

ApiFrame == UNCHANGED <<ctlVars, envVars, glbVars, histVars, cfgVars, fnVars>>

\* writer.write_row(u, ..., e, ...) as one call (lines 114-127)
ApiWriteRow(u, e) ==
    /\ pc = "api"
    /\ op' = "write_row" /\ arg' = u
    /\ IF conn # "open"
       THEN /\ raised' = TRUE /\ ret' = "None"
            /\ UNCHANGED storeVars
       ELSE IF IntegrityError(Visible(rows, pending), u)
       THEN /\ raised' = FALSE /\ ret' = "False"
            /\ UNCHANGED storeVars
       ELSE /\ raised' = FALSE /\ ret' = "True"
            /\ rows' = commit(rows, Append(pending, Row(u, e)))
            /\ pending' = <<>>
            /\ row_count' = row_count + 1
            /\ UNCHANGED <<conn, existing_count>>
    /\ ApiFrame

\* writer.is_scraped(u) (lines 109-112)
ApiIsScraped(u) ==
    /\ pc = "api"
    /\ op' = "is_scraped" /\ arg' = u
    /\ IF conn # "open"
       THEN raised' = TRUE /\ ret' = "None"
       ELSE /\ raised' = FALSE
            /\ ret' = IF is_scraped(Visible(rows, pending), u)
                      THEN "True" ELSE "False"
    /\ UNCHANGED storeVars
    /\ ApiFrame

\* writer.close() (lines 134-138)
ApiClose ==
    /\ pc = "api"
    /\ op' = "close" /\ arg' = 0 /\ ret' = "None"
    /\ IF close_raises(conn)
       THEN raised' = TRUE /\ UNCHANGED storeVars
       ELSE /\ raised' = FALSE
            /\ rows' = commit(rows, pending) /\ pending' = <<>>
            /\ conn' = "closed"
            /\ UNCHANGED <<row_count, existing_count>>
    /\ ApiFrame

\* SQLiteWriter(db_path) on the file a closed writer left (lines 73-83)
ApiReopen ==
    /\ pc = "api" /\ conn = "closed"
    /\ op' = "init" /\ arg' = 0 /\ ret' = "None" /\ raised' = FALSE
    /\ conn' = "open" /\ row_count' = 0 /\ existing_count' = Len(rows)
    /\ UNCHANGED <<rows, pending>>
    /\ ApiFrame

StoreNext ==
    \/ \E u \in Urls, e \in Emails \cup {NoEmail} : ApiWriteRow(u, e)
    \/ \E u \in Urls : ApiIsScraped(u)
    \/ ApiClose
    \/ ApiReopen

StoreSpec == StoreInit /\ [][StoreNext]_vars

\* ------------------------------------------------------- the crawl: runs
\* of scrape.py in scraping mode against one site and one database file

Init ==
    /\ listing \in Listings /\ shown = 0
    /\ rows = <<>> /\ pending = <<>> /\ conn = "none"
    /\ row_count = 0 /\ existing_count = 0
    /\ writer_instance = FALSE /\ interrupted = FALSE
    /\ target \in 1..MaxTarget
    /\ pc = "idle" /\ idleCtl /\ idleHist /\ idleApi /\ idleFn /\ defaultCfg

NoApi == UNCHANGED <<apiVars, fnVars, cfgVars>>

\* __main__ (lines 758-800) up to the call of scrape_directory, and lines
\* 608-611: a fresh process, so the module globals and locals start anew
StartRun ==
    /\ pc \in {"idle"} \cup EndPcs
    /\ run < MaxRuns
    /\ run' = run + 1
    /\ pc' = "construct" /\ exc' = "none"
    /\ collected' = 0 /\ page' = 0 /\ k' = 0
    /\ profile_links' = <<>> /\ new_links' = <<>> /\ i' = 0
    /\ data' = NoEmail /\ inserted' = FALSE
    /\ conn' = "none" /\ pending' = <<>>
    /\ row_count' = 0 /\ existing_count' = 0
    /\ writer_instance' = FALSE /\ interrupted' = FALSE
    /\ sig' = FALSE /\ known' = {} /\ closeCalls' = 0
    /\ closeErr' = FALSE /\ exhausted' = FALSE /\ lateClicks' = 0
    /\ storeFault' = FALSE
    /\ shown' = 0
    /\ UNCHANGED <<rows, listing, target, acked, faultFree>>
    /\ NoApi

\* writer = SQLiteWriter(db_path) (line 614; lines 73-83)
OpenWriter ==
    /\ pc = "construct"
    /\ conn' = "open" /\ row_count' = 0
    /\ existing_count' = get_total_count(rows, <<>>)
    /\ pc' = "assign"
    /\ UNCHANGED <<rows, pending>>
    /\ UNCHANGED <<run, exc, target, collected, page, k, profile_links,
                   new_links, i, data, inserted>>
    /\ UNCHANGED <<envVars, glbVars, histVars>> /\ NoApi

\* _writer_instance = writer (line 615)
AssignWriter ==
    /\ pc = "assign"
    /\ writer_instance' = TRUE
    /\ pc' = "nav"
    /\ UNCHANGED <<run, exc, target, collected, page, k, profile_links,
                   new_links, i, data, inserted>>
    /\ UNCHANGED <<storeVars, envVars, interrupted, histVars>> /\ NoApi

\* driver.get(start_url), input(...), page = 1 (lines 619-624); a load
\* fault is a WebDriverException caught at line 705
Navigate ==
    /\ pc = "nav"
    /\ \/ /\ shown' = 1 /\ page' = 1 /\ pc' = "while"
          /\ UNCHANGED faultFree
       \/ /\ pc' = "finally" /\ faultFree' = FALSE
          /\ UNCHANGED <<shown, page>>
    /\ UNCHANGED <<run, exc, target, collected, k, profile_links,
                   new_links, i, data, inserted>>
    /\ UNCHANGED <<storeVars, listing, glbVars>>
    /\ UNCHANGED <<storeFault, sig, acked, known, closeCalls, closeErr, exhausted, lateClicks>>
    /\ NoApi

\* while not _interrupted and collected_emails < target_emails, and the
\* header print with writer.get_total_count() (lines 625-628)
WhileCheck ==
    /\ pc = "while"
    /\ IF while_guard(interrupted, collected, target)
       THEN pc' = IF conn = "open" THEN "wait" ELSE "finally"
       ELSE pc' = "finally"
    /\ UNCHANGED <<run, exc, target, collected, page, k, profile_links,
                   new_links, i, data, inserted>>
    /\ UNCHANGED <<storeVars, envVars, glbVars, histVars>> /\ NoApi

\* collect_profile_links up to line 313: the bounded wait for a /users/
\* anchor, which times out (lines 632-637: break) or finds the anchors
WaitLinks ==
    /\ pc = "wait"
    /\ \/ /\ pc' = "finally" /\ exhausted' = TRUE
          /\ faultFree' = (faultFree /\ PageAt(shown) = <<>>)
          /\ UNCHANGED <<k, profile_links>>
       \/ /\ pc' = "anchors" /\ k' = 1 /\ profile_links' = <<>>
          /\ UNCHANGED <<exhausted, faultFree>>
    /\ UNCHANGED <<run, exc, target, collected, page, new_links, i, data,
                   inserted>>
    /\ UNCHANGED <<storeVars, envVars, glbVars>>
    /\ UNCHANGED <<storeFault, sig, acked, known, closeCalls, closeErr, lateClicks>>
    /\ NoApi

\* one iteration of the loop over the anchors (lines 314-325), or the
\* return of ordered_links after the last one (line 327)
NextAnchor ==
    /\ pc = "anchors"
    /\ IF k <= Len(PageAt(shown))
       THEN LET href == PageAt(shown)[k] IN
            /\ profile_links' =
                  IF href \in {profile_links[n] : n \in 1..Len(profile_links)}
                  THEN profile_links ELSE Append(profile_links, href)
            /\ k' = k + 1
            /\ UNCHANGED <<pc, exhausted>>
       ELSE /\ pc' = "check_links"
            /\ exhausted' = (profile_links = <<>>)
            /\ UNCHANGED <<k, profile_links>>
    /\ UNCHANGED <<run, exc, target, collected, page, new_links, i, data,
                   inserted>>
    /\ UNCHANGED <<storeVars, envVars, glbVars>>
    /\ UNCHANGED <<storeFault, sig, acked, known, closeCalls, closeErr, faultFree,
                   lateClicks>>
    /\ NoApi

\* if not profile_links: ... break (lines 639-641)
CheckLinks ==
    /\ pc = "check_links"
    /\ IF no_profiles(profile_links)
       THEN pc' = "finally"
       ELSE pc' = "filter"
    /\ UNCHANGED <<run, exc, target, collected, page, k, profile_links,
                   new_links, i, data, inserted>>
    /\ UNCHANGED <<storeVars, envVars, glbVars, histVars>> /\ NoApi

\* new_links = [link for link in profile_links if not
\* writer.is_scraped(link)] (lines 644-646); on a closed connection
\* is_scraped raises, which line 705 catches
FilterLinks ==
    /\ pc = "filter"
    /\ IF conn = "open"
       THEN /\ new_links' = new_links_of(profile_links, Visible(rows, pending))
            /\ known' = UrlsOf(Visible(rows, pending))
            /\ pc' = "check_new"
       ELSE /\ pc' = "finally"
            /\ UNCHANGED <<new_links, known>>
    /\ UNCHANGED <<run, exc, target, collected, page, k, profile_links,
                   i, data, inserted>>
    /\ UNCHANGED <<storeVars, envVars, glbVars>>
    /\ UNCHANGED <<storeFault, sig, acked, closeCalls, closeErr, faultFree, exhausted, lateClicks>>
    /\ NoApi

\* if not new_links: (line 648), else the for loop starts (line 658)
CheckNew ==
    /\ pc = "check_new"
    /\ IF no_new_links(new_links)
       THEN pc' = "click" /\ UNCHANGED i
       ELSE pc' = "for" /\ i' = 1
    /\ UNCHANGED <<run, exc, target, collected, page, k, profile_links,
                   new_links, data, inserted>>
    /\ UNCHANGED <<storeVars, envVars, glbVars, histVars>> /\ NoApi

\* the head of the for loop (lines 658-660)
ForCheck ==
    /\ pc = "for"
    /\ IF i > Len(new_links)
       THEN pc' = "click"
       ELSE IF for_break(interrupted, collected, target)
       THEN pc' = "click"
       ELSE pc' = "scrape"
    /\ UNCHANGED <<run, exc, target, collected, page, k, profile_links,
                   new_links, i, data, inserted>>
    /\ UNCHANGED <<storeVars, envVars, glbVars, histVars>> /\ NoApi

\* scrape_profile is called and navigates to the profile (lines 663, 351)
ScrapeBegin ==
    /\ pc = "scrape"
    /\ pc' = "in_profile"
    /\ data' = NoEmail
    /\ UNCHANGED <<run, exc, target, collected, page, k, profile_links,
                   new_links, i, inserted>>
    /\ UNCHANGED <<storeVars, envVars, glbVars, histVars>> /\ NoApi

\* scrape_profile returns (lines 353-549): result["email"] is "" after a
\* timeout or a WebDriverException, else what the extraction produced
ScrapeEnd ==
    /\ pc = "in_profile"
    /\ \E e \in Emails \cup {NoEmail} :
          /\ data' = e
          /\ faultFree' = (faultFree /\ e # NoEmail)
    /\ pc' = "got_data"
    /\ UNCHANGED <<run, exc, target, collected, page, k, profile_links,
                   new_links, i, inserted>>
    /\ UNCHANGED <<storeVars, envVars, glbVars>>
    /\ UNCHANGED <<storeFault, sig, acked, known, closeCalls, closeErr, exhausted, lateClicks>>
    /\ NoApi

\* if data["email"]: (line 664), else the "No email found" print
CheckEmail ==
    /\ pc = "got_data"
    /\ pc' = IF has_email(data) THEN "w_insert" ELSE "back"
    /\ UNCHANGED <<run, exc, target, collected, page, k, profile_links,
                   new_links, i, data, inserted>>
    /\ UNCHANGED <<storeVars, envVars, glbVars, histVars>> /\ NoApi

\* the link the for loop is at
link_reversed == new_links[Len(new_links) + 1 - i]
link == new_links[i]

\* write_row: cursor.execute(INSERT ...) (lines 118-121); a duplicate
\* profile_url raises IntegrityError and write_row returns False (line
\* 127); on a closed connection ProgrammingError, caught at line 689
WriteInsert ==
    /\ pc = "w_insert"
    /\ IF conn # "open"
       THEN /\ pc' = "back"
            /\ UNCHANGED <<pending, inserted>>
       ELSE IF IntegrityError(Visible(rows, pending), link)
       THEN /\ pc' = "after_write" /\ inserted' = FALSE
            /\ UNCHANGED pending
       ELSE /\ pc' = "w_commit"
            /\ pending' = Append(pending, Row(link, data))
            /\ UNCHANGED inserted
    /\ UNCHANGED <<rows, conn, row_count, existing_count>>
    /\ UNCHANGED <<run, exc, target, collected, page, k, profile_links,
                   new_links, i, data>>
    /\ UNCHANGED <<envVars, glbVars, histVars>> /\ NoApi

\* write_row: cursor.execute(INSERT ...) raises a sqlite3 error that is not
\* an IntegrityError (disk full, database locked, I/O error): nothing is
\* inserted, write_row lets it through and line 689 catches it
WriteFault ==
    /\ pc = "w_insert" /\ conn = "open"
    /\ pc' = except_profile
    /\ storeFault' = TRUE /\ faultFree' = FALSE
    /\ UNCHANGED <<run, exc, target, collected, page, k, profile_links,
                   new_links, i, data, inserted>>
    /\ UNCHANGED <<storeVars, envVars, glbVars>>
    /\ UNCHANGED <<sig, acked, known, closeCalls, closeErr, exhausted,
                   lateClicks>>
    /\ NoApi

\* scrape_profile raises an Exception that its own handler of line 543
\* (WebDriverException only) does not catch; line 689 catches it
ScrapeFault ==
    /\ pc = "in_profile"
    /\ pc' = except_profile
    /\ faultFree' = FALSE
    /\ UNCHANGED <<run, exc, target, collected, page, k, profile_links,
                   new_links, i, data, inserted>>
    /\ UNCHANGED <<storeVars, envVars, glbVars>>
    /\ UNCHANGED <<sig, acked, known, closeCalls, closeErr, exhausted,
                   lateClicks, storeFault>>
    /\ NoApi

\* write_row: self.conn.commit() (line 122)
WriteCommit ==
    /\ pc = "w_commit"
    /\ rows' = commit(rows, pending) /\ pending' = <<>>
    /\ pc' = "w_count"
    /\ UNCHANGED <<conn, row_count, existing_count>>
    /\ UNCHANGED <<run, exc, target, collected, page, k, profile_links,
                   new_links, i, data, inserted>>
    /\ UNCHANGED <<envVars, glbVars, histVars>> /\ NoApi

\* write_row: self.row_count += 1 (line 123)
WriteCount ==
    /\ pc = "w_count"
    /\ row_count' = row_count + 1
    /\ pc' = "w_ret"
    /\ UNCHANGED <<rows, pending, conn, existing_count>>
    /\ UNCHANGED <<run, exc, target, collected, page, k, profile_links,
                   new_links, i, data, inserted>>
    /\ UNCHANGED <<envVars, glbVars, histVars>> /\ NoApi

\* write_row: return True (line 124), assigned to `inserted` (line 665)
WriteReturn ==
    /\ pc = "w_ret"
    /\ inserted' = TRUE
    /\ acked' = acked \cup {link}
    /\ pc' = "after_write"
    /\ UNCHANGED <<run, exc, target, collected, page, k, profile_links,
                   new_links, i, data>>
    /\ UNCHANGED <<storeVars, envVars, glbVars>>
    /\ UNCHANGED <<storeFault, sig, known, closeCalls, closeErr, faultFree, exhausted, lateClicks>>
    /\ NoApi

\* if inserted: collected_emails += 1 ... print (lines 671-684)
AfterWrite ==
    /\ pc = "after_write"
    /\ collected' = IF inserted THEN collected + 1 ELSE collected
    /\ pc' = "back"
    /\ UNCHANGED <<run, exc, target, page, k, profile_links,
                   new_links, i, data, inserted>>
    /\ UNCHANGED <<storeVars, envVars, glbVars, histVars>> /\ NoApi

\* driver.back() and the next iteration (lines 693-694)
Back ==
    /\ pc = "back"
    /\ i' = i + 1
    /\ pc' = "for"
    /\ UNCHANGED <<run, exc, target, collected, page, k, profile_links,
                   new_links, data, inserted>>
    /\ UNCHANGED <<storeVars, envVars, glbVars, histVars>> /\ NoApi

\* driver.back() (line 693) raises a WebDriverException: it is outside the
\* try of line 662, so line 705 catches it
BackFault ==
    /\ pc = "back"
    /\ pc' = "finally"
    /\ faultFree' = FALSE
    /\ UNCHANGED <<run, exc, target, collected, page, k, profile_links,
                   new_links, i, data, inserted>>
    /\ UNCHANGED <<storeVars, envVars, glbVars>>
    /\ UNCHANGED <<sig, acked, known, closeCalls, closeErr, exhausted,
                   lateClicks, storeFault>>
    /\ NoApi

\* page += 1 (lines 654, 701).  `page` is printed and nothing else: the
\* numbers from MaxPages on are not told apart
page_plus_1(p) == IF p < MaxPages THEN p + 1 ELSE p

\* click_next_page (lines 563-603) from line 651 or line 698: False (no
\* enabled Next control, or a WebDriverException) breaks the loop; True
\* needs a further page, which the browser then shows, and page += 1
ClickNext ==
    /\ pc = "click"
    /\ \/ /\ pc' = "finally"
          /\ UNCHANGED <<shown, page>>
       \/ /\ shown < Len(listing)
          /\ shown' = shown + 1 /\ page' = page_plus_1(page)
          /\ pc' = "while"
    /\ lateClicks' = IF collected >= target THEN lateClicks + 1
                     ELSE lateClicks
    /\ UNCHANGED <<run, exc, target, collected, k, profile_links,
                   new_links, i, data, inserted>>
    /\ UNCHANGED <<storeVars, listing, glbVars>>
    /\ UNCHANGED <<storeFault, sig, acked, known, closeCalls, closeErr, faultFree,
                   exhausted>>
    /\ NoApi

\* click_next_page returns True and the listing has not changed: the
\* control it clicked is there on the last page too (the arrow of lines
\* 593-599 is clicked whatever its state), or the site serves the same
\* page again
ClickStuck ==
    /\ pc = "click"
    /\ shown' = shown /\ page' = page_plus_1(page)
    /\ pc' = "while"
    /\ lateClicks' = IF collected >= target THEN lateClicks + 1
                     ELSE lateClicks
    /\ UNCHANGED <<run, exc, target, collected, k, profile_links,
                   new_links, i, data, inserted>>
    /\ UNCHANGED <<storeVars, listing, glbVars>>
    /\ UNCHANGED <<storeFault, sig, acked, known, closeCalls, closeErr, faultFree,
                   exhausted>>
    /\ NoApi

\* finally: if _writer_instance is not None: (lines 707-709)
Finally ==
    /\ pc = "finally"
    /\ pc' = IF writer_instance THEN "f_total" ELSE "quit"
    /\ UNCHANGED <<run, exc, target, collected, page, k, profile_links,
                   new_links, i, data, inserted>>
    /\ UNCHANGED <<storeVars, envVars, glbVars, histVars>> /\ NoApi

\* total = writer.get_total_count() (line 711); on a closed connection it
\* raises, and `except Exception: pass` (line 716) skips the close
FinallyTotal ==
    /\ pc = "f_total"
    /\ pc' = IF conn = "open" THEN "f_close" ELSE "quit"
    /\ UNCHANGED <<run, exc, target, collected, page, k, profile_links,
                   new_links, i, data, inserted>>
    /\ UNCHANGED <<storeVars, envVars, glbVars, histVars>> /\ NoApi

\* writer.close() (line 712; lines 134-138)
FinallyClose ==
    /\ pc = "f_close"
    /\ closeCalls' = closeCalls + 1
    /\ IF close_raises(conn)
       THEN /\ closeErr' = TRUE /\ pc' = "quit"
            /\ UNCHANGED <<rows, pending, conn>>
       ELSE /\ rows' = commit(rows, pending) /\ pending' = <<>>
            /\ conn' = "closed" /\ pc' = "f_clear"
            /\ UNCHANGED closeErr
    /\ UNCHANGED <<row_count, existing_count>>
    /\ UNCHANGED <<run, exc, target, collected, page, k, profile_links,
                   new_links, i, data, inserted>>
    /\ UNCHANGED <<envVars, glbVars>>
    /\ UNCHANGED <<storeFault, sig, acked, known, faultFree, exhausted, lateClicks>>
    /\ NoApi

\* _writer_instance = None and the two prints (lines 713-715)
FinallyClear ==
    /\ pc = "f_clear"
    /\ writer_instance' = FALSE
    /\ pc' = "quit"
    /\ UNCHANGED <<run, exc, target, collected, page, k, profile_links,
                   new_links, i, data, inserted>>
    /\ UNCHANGED <<storeVars, envVars, interrupted, histVars>> /\ NoApi

\* driver.quit() (lines 718-721), then back in __main__: the success
\* print (line 801), or `except SystemExit: pass` (line 803)
Quit ==
    /\ pc = "quit"
    /\ pc' = IF exc = "SystemExit" THEN "exited" ELSE "done"
    /\ UNCHANGED <<run, exc, target, collected, page, k, profile_links,
                   new_links, i, data, inserted>>
    /\ UNCHANGED <<storeVars, envVars, glbVars, histVars>> /\ NoApi

\* ------------------------------------------------ lifecycle supervisor

\* positions before the try of line 617, inside it, and in the finally
BeforeTryPcs == {"construct", "assign"}
TryPcs == {"nav", "while", "wait", "anchors", "check_links", "filter",
           "check_new", "for", "scrape", "in_profile", "got_data",
           "w_insert", "w_commit", "w_count", "w_ret", "after_write",
           "back", "click"}
FinallyPcs == {"finally", "f_total", "f_close", "f_clear", "quit"}
RunningPcs == BeforeTryPcs \cup TryPcs \cup FinallyPcs

\* signal_handler up to its sys.exit (lines 169-184).  Python runs the
\* handler in the main thread between two bytecodes, so it is one step.
Handler ==
    /\ interrupted' = TRUE
    /\ sig' = TRUE /\ faultFree' = FALSE
    /\ IF writer_instance
       THEN /\ closeCalls' = closeCalls + 1
            /\ IF close_raises(conn)
               THEN /\ closeErr' = TRUE
                    /\ UNCHANGED <<rows, pending, conn, writer_instance>>
               ELSE /\ rows' = commit(rows, pending) /\ pending' = <<>>
                    /\ conn' = "closed"
                    /\ writer_instance' = FALSE
                    /\ UNCHANGED closeErr
       ELSE UNCHANGED <<rows, pending, conn, writer_instance,
                        closeCalls, closeErr>>
    /\ UNCHANGED <<storeFault, row_count, existing_count, acked, known, exhausted,
                   lateClicks>>

\* where the SystemExit of sys.exit(0) (line 185) takes the main thread
\* when it is raised at position p: inside the try of line 617 the finally
\* block runs with the exception in flight; before the try, or inside the
\* finally block (whose handlers catch Exception only), it reaches
\* `except SystemExit: pass` of __main__ directly
SystemExitLands(p) == IF p \in TryPcs THEN "finally" ELSE "exited"

\* a termination signal (SIGINT or SIGTERM) is delivered
Signal ==
    /\ pc \in RunningPcs /\ ~sig
    /\ Handler
    /\ pc' = SystemExitLands(pc)
    /\ exc' = IF pc \in TryPcs THEN "SystemExit" ELSE exc
    /\ UNCHANGED <<run, target, collected, page, k, profile_links,
                   new_links, i, data, inserted>>
    /\ UNCHANGED envVars /\ NoApi

\* a termination signal is delivered while the body of the anchor loop
\* runs: the bare `except:` of line 324 catches the SystemExit and the
\* loop continues, with the anchor at hand recorded or not
SignalSwallowed ==
    /\ pc = "anchors" /\ ~sig
    /\ k <= Len(PageAt(shown))
    /\ Handler
    /\ LET href == PageAt(shown)[k] IN
       \/ UNCHANGED profile_links
       \/ /\ href \notin {profile_links[n] : n \in 1..Len(profile_links)}
          /\ profile_links' = Append(profile_links, href)
    /\ k' = k + 1
    /\ UNCHANGED <<run, pc, exc, target, collected, page,
                   new_links, i, data, inserted>>
    /\ UNCHANGED envVars /\ NoApi

\* the process is terminated abruptly (SIGKILL, power loss): no handler
\* runs and the open transaction is lost
Kill ==
    /\ pc \in RunningPcs
    /\ pc' = "killed"
    /\ pending' = <<>> /\ conn' = "none"
    /\ faultFree' = FALSE
    /\ UNCHANGED <<rows, row_count, existing_count>>
    /\ UNCHANGED <<run, exc, target, collected, page, k, profile_links,
                   new_links, i, data, inserted>>
    /\ UNCHANGED <<envVars, glbVars>>
    /\ UNCHANGED <<storeFault, sig, acked, known, closeCalls, closeErr, exhausted, lateClicks>>
    /\ NoApi

Next ==
    \/ StartRun
    \/ OpenWriter
    \/ AssignWriter
    \/ Navigate
    \/ WhileCheck
    \/ WaitLinks
    \/ NextAnchor
    \/ CheckLinks
    \/ FilterLinks
    \/ CheckNew
    \/ ForCheck
    \/ ScrapeBegin
    \/ ScrapeEnd
    \/ CheckEmail
    \/ ScrapeFault
    \/ WriteInsert
    \/ WriteFault
    \/ WriteCommit
    \/ WriteCount
    \/ WriteReturn
    \/ AfterWrite
    \/ Back
    \/ BackFault
    \/ ClickNext
    \/ ClickStuck
    \/ Finally
    \/ FinallyTotal
    \/ FinallyClose
    \/ FinallyClear
    \/ Quit
    \/ Signal
    \/ SignalSwallowed
    \/ Kill

Spec == Init /\ [][Next]_vars

\* the steps of the main thread of a run: the interpreter runs the next
\* statement as long as there is one
MainNext ==
    \/ OpenWriter \/ AssignWriter \/ Navigate \/ WhileCheck \/ WaitLinks
    \/ NextAnchor \/ CheckLinks \/ FilterLinks \/ CheckNew \/ ForCheck
    \/ ScrapeBegin \/ ScrapeEnd \/ CheckEmail \/ ScrapeFault \/ WriteInsert
    \/ WriteFault \/ WriteCommit \/ WriteCount \/ WriteReturn \/ AfterWrite
    \/ Back \/ BackFault \/ ClickNext \/ ClickStuck \/ Finally
    \/ FinallyTotal \/ FinallyClose \/ FinallyClear \/ Quit

\* the crawl with a main thread that never stops before the end of its run
LiveSpec == Init /\ [][Next]_vars /\ WF_vars(MainNext)

\* ------------------------------------------- end-to-end scenario A: the
\* same runs against a two-page site whose first page exposes three
\* profiles and whose second page exposes nothing new, with target 3
ScenarioPage1 == <<1, 2, 3>>
ScenarioPage2 == SeqsUpTo({1, 2, 3}, MaxAnchors)

ScenarioInit ==
    /\ \E p2 \in ScenarioPage2 : listing = <<ScenarioPage1, p2>>
    /\ shown = 0
    /\ rows = <<>> /\ pending = <<>> /\ conn = "none"
    /\ row_count = 0 /\ existing_count = 0
    /\ writer_instance = FALSE /\ interrupted = FALSE
    /\ target = 3
    /\ pc = "idle" /\ idleCtl /\ idleHist /\ idleApi /\ idleFn /\ defaultCfg

ScenarioSpec == ScenarioInit /\ [][Next]_vars

\* ------------------------------------------- the same runs with a start
\* page and an end page given on the command line: __main__ stores
\* --start-page and --end-page in START_PAGE and END_PAGE (lines 785-786)
\* before it calls scrape_directory
PagesInit ==
    /\ listing \in Listings /\ shown = 0
    /\ rows = <<>> /\ pending = <<>> /\ conn = "none"
    /\ row_count = 0 /\ existing_count = 0
    /\ writer_instance = FALSE /\ interrupted = FALSE
    /\ target \in 1..MaxTarget
    /\ START_PAGE \in 1..MaxPages
    /\ END_PAGE \in {NoEndPage} \cup 1..MaxPages
    /\ pc = "idle" /\ idleCtl /\ idleHist /\ idleApi /\ idleFn

PagesSpec == PagesInit /\ [][Next]_vars

\* ------------------------------------------------ scrape_profile, called
\* on its own.  A text is a sequence of characters, "" being <<>>; an
\* email address is a number in Addrs, "" being NoEmail.

\* everything but the function called on its own stands still
fnIdle ==
    /\ listing = <<>> /\ shown = 0
    /\ rows = <<>> /\ pending = <<>> /\ conn = "none"
    /\ row_count = 0 /\ existing_count = 0
    /\ writer_instance = FALSE /\ interrupted = FALSE
    /\ target = 1
    /\ pc = "fn" /\ idleCtl /\ idleHist /\ idleApi /\ defaultCfg

FnFrame == UNCHANGED <<storeVars, ctlVars, envVars, glbVars, histVars,
                       cfgVars, apiVars>>

Addrs == 1..NumAddrs

DigitChars == <<"0", "1", "2", "3", "4", "5", "6", "7", "8", "9">>

\* the initial value of result["name"] (line 337)
Unknown == <<"(unknown)">>

\* the exception a document access raises
WebDriverException == <<"WebDriverException">>

\* result as initialised in lines 336-346
result0 ==
    [name |-> Unknown, email |-> NoEmail, linkedin |-> <<>>, city |-> <<>>,
     state |-> <<>>, industry |-> <<>>, work_title |-> <<>>,
     firm_name |-> <<>>, class_year |-> <<>>]

\* extract_emails_from_blocks (lines 188-200) on the cleaned hrefs of the
\* mailto anchors: the non-empty ones, each at its first occurrence
extract_emails_from_blocks(mailtos) ==
    FirstSeen(SelectSeq(mailtos, LAMBDA a : a # NoEmail))

\* `if not include_all and emails: emails = emails[:1]` (lines 412-413,
\* 420-421)
primary_only(emails, include_all) ==
    IF ~include_all /\ emails # <<>> THEN SubSeq(emails, 1, 1) ELSE emails

\* the list `emails` at line 424: the emails of the blocks, or those of the
\* regex scan of the page source when the blocks gave none
emails_of(doc, include_all) ==
    LET blocks == primary_only(extract_emails_from_blocks(doc.mailtos),
                               include_all)
    IN IF blocks # <<>> THEN blocks
       ELSE primary_only(doc.regex_found, include_all)

\* `if emails: result["email"] = emails[0]` (lines 424-425)
email_field(emails) == IF emails # <<>> THEN emails[1] ELSE NoEmail

\* int(year_short) and str(year) (lines 467-468) on decimal digits
DigitVal(c) == Pos(DigitChars, c) - 1
int2(a, b) == 10 * DigitVal(a) + DigitVal(b)
str4(n) == <<DigitChars[(n \div 1000) + 1], DigitChars[((n \div 100) % 10) + 1],
             DigitChars[((n \div 10) % 10) + 1], DigitChars[(n % 10) + 1]>>

\* characters of the class \w, among those a name is made of here
WordChars == Range(DigitChars) \cup {"J", "s", "_"}

\* re.search(r"'(\d{2})\b", name) (line 463): where the apostrophe of the
\* first match is, 0 when nothing matches
suffix_at(name) ==
    LET ms == {p \in 1..(Len(name) - 2) :
                 /\ name[p] = "'"
                 /\ name[p + 1] \in Range(DigitChars)
                 /\ name[p + 2] \in Range(DigitChars)
                 /\ (p + 2 = Len(name) \/ name[p + 3] \notin WordChars)}
    IN IF ms = {} THEN 0 ELSE CHOOSE p \in ms : \A q \in ms : p <= q

\* 1900s for 50-99, 2000s for 00-49 (line 468)
expand_year_1900(yy) == 1900 + yy
expand_year(yy) == IF yy >= 50 THEN 1900 + yy ELSE 2000 + yy

\* Method 4 (lines 461-468): the class year of a 'YY suffix of the name
suffix_year(name) ==
    LET p == suffix_at(name)
    IN IF p = 0 THEN <<>>
       ELSE str4(expand_year(int2(name[p + 1], name[p + 2])))

\* the class-year block (lines 428-470): c1, c2, c3 are what Methods 1, 2
\* and 3 yield, each a text or the exception its document access raises;
\* an exception leaves the block with what result["class_year"] holds
class_year_of(c1, c2, c3, name) ==
    IF c1 = WebDriverException THEN <<>>
    ELSE IF c1 # <<>> THEN c1
    ELSE IF c2 = WebDriverException THEN <<>>
    ELSE IF c2 # <<>> THEN c2
    ELSE IF c3 = WebDriverException THEN <<>>
    ELSE IF c3 # <<>> THEN c3
    ELSE IF name # <<>> THEN suffix_year(name)
    ELSE <<>>

\* str.rstrip(c) and str.strip()
RECURSIVE rstrip(_, _)
rstrip(t, c) ==
    IF t # <<>> /\ t[Len(t)] = c THEN rstrip(SubSeq(t, 1, Len(t) - 1), c)
    ELSE t

RECURSIVE lstrip(_, _)
lstrip(t, c) == IF t # <<>> /\ t[1] = c THEN lstrip(Tail(t), c) ELSE t

strip(t) == rstrip(lstrip(t, " "), " ")

\* extract_linkedin (lines 220-226) on what LINKEDIN_PATTERN.search finds
\* in the page source, <<>> when it finds nothing
extract_linkedin(found) == IF found # <<>> THEN rstrip(found, "/") ELSE <<>>

\* lines 500-513: the link of the page source, else the href of the first
\* linkedin anchor, which is <<>> when there is no such anchor (or no
\* href) and an exception when the lookup raises
linkedin_of(doc) ==
    IF extract_linkedin(doc.source_link) # <<>>
    THEN extract_linkedin(doc.source_link)
    ELSE IF doc.anchor_href = WebDriverException THEN <<>>
    ELSE strip(doc.anchor_href)

\* lines 363-541, once the marker element is there: doc holds what the
\* selectors of each field yield on the page.  The lookup of the email
\* blocks (lines 409-410) and the read of driver.page_source (lines 418,
\* 499) are in no try of their own: when one raises, line 543 catches it
\* and the record is returned as it stands
extract(doc, include_all) ==
    LET name == IF doc.name # <<>> THEN doc.name ELSE Unknown
        named == [result0 EXCEPT !.name = name]
        blocks == extract_emails_from_blocks(doc.mailtos)
        located ==
            [named EXCEPT
                !.email = email_field(emails_of(doc, include_all)),
                !.class_year = class_year_of(doc.c1, doc.c2, doc.c3, name),
                !.city = doc.other, !.state = doc.other]
    IN IF doc.blocks_raise THEN named
       ELSE IF blocks = <<>> /\ doc.source_raises THEN named
       ELSE IF doc.source_raises THEN located
       ELSE [located EXCEPT
                !.linkedin = linkedin_of(doc),
                !.work_title = doc.other, !.firm_name = doc.other,
                !.industry = doc.other]

\* scrape_profile (lines 330-549): the bounded wait for the marker element
\* times out (lines 359-361), or the fields are extracted
scrape_profile_no_wait(doc, include_all) == extract(doc, include_all)
scrape_profile(doc, include_all) ==
    IF ~doc.marker THEN result0 ELSE extract(doc, include_all)

\* ---- the profile pages scrape_profile is called on
FullDoc(mk, n, m, r, c1, c2, c3, o, br, sr, sl, ah) ==
    [marker |-> mk, name |-> n, mailtos |-> m, regex_found |-> r,
     c1 |-> c1, c2 |-> c2, c3 |-> c3, other |-> o, blocks_raise |-> br,
     source_raises |-> sr, source_link |-> sl, anchor_href |-> ah]

\* a page whose email blocks and source are read without a fault and that
\* holds no linkedin link
Doc(marker, name, mailtos, regex_found, c1, c2, c3, other) ==
    FullDoc(marker, name, mailtos, regex_found, c1, c2, c3, other,
            FALSE, FALSE, <<>>, <<>>)

PlainName == <<"J">>

\* a name without suffix, and names that end in an apostrophe and digits
Names ==
    {PlainName, <<"J", "'", "7">>}
    \cup {<<"J", " ", "'", a, b>> : a, b \in Range(DigitChars)}
    \cup {<<"J", " ", "'", "9", "7", c>> : c \in {"5", "s", " "}}

Year(a, b, c, d) == <<a, b, c, d>>

\* pages that differ in their email blocks and in the emails a regex scan
\* of their source finds
EmailDocs ==
    {Doc(TRUE, PlainName, m, r, <<>>, <<>>, <<>>, <<>>) :
        m \in SeqsUpTo(Addrs \cup {NoEmail}, MaxMailtos),
        r \in {q \in SeqsUpTo(Addrs, MaxMailtos) : FirstSeen(q) = q}}

\* pages that differ in the name and in what the three class-year
\* selectors yield
YearDocs ==
    {Doc(TRUE, n, <<1>>, <<>>, c1, c2, c3, <<>>) :
        n \in Names,
        c1 \in {<<>>, Year("1", "9", "8", "1"), WebDriverException},
        c2 \in {<<>>, Year("1", "9", "8", "2"), WebDriverException},
        c3 \in {<<>>, Year("1", "9", "8", "3"), WebDriverException}}

\* pages whose marker element shows up or not, with fields to find or not
MarkerDocs ==
    {Doc(mk, n, m, <<>>, c1, <<>>, <<>>, o) :
        mk \in BOOLEAN, n \in {<<>>, <<"J", " ", "'", "9", "7">>},
        m \in {<<>>, <<1>>}, c1 \in {<<>>, Year("1", "9", "8", "1")},
        o \in {<<>>, <<"v">>}}

\* a linkedin link is the text "L" (a URL up to its last character that
\* is no slash), with a "/" after it or not; an href may have blanks
\* around it
SourceLinks == {<<>>, <<"L">>, <<"L", "/">>}
AnchorHrefs ==
    {<<>>, <<"L">>, <<"L", "/">>, <<" ", "L", " ">>, <<" ", "L", "/", " ">>,
     WebDriverException}

\* pages that differ in the link their source holds and in the href of
\* their first linkedin anchor
LinkDocs ==
    {FullDoc(TRUE, PlainName, <<1>>, <<>>, <<>>, <<>>, <<>>, <<>>,
             FALSE, FALSE, sl, ah) : sl \in SourceLinks, ah \in AnchorHrefs}

\* pages on which the lookup of the email blocks, the read of the page
\* source or the first class-year selector raises or not
FaultDocs ==
    {FullDoc(TRUE, n, m, r, c1, <<>>, <<>>, o, br, sr, sl, <<>>) :
        n \in {PlainName, <<"J", " ", "'", "9", "7">>},
        m \in {<<>>, <<1>>}, r \in {<<>>, <<2>>},
        c1 \in {<<>>, Year("1", "9", "8", "1"), WebDriverException},
        o \in {<<>>, <<"v">>}, br \in BOOLEAN, sr \in BOOLEAN,
        sl \in {<<>>, <<"L">>}}

Docs == EmailDocs \cup YearDocs \cup MarkerDocs \cup LinkDocs \cup FaultDocs

ProfileInit ==
    /\ fnIdle
    /\ fn = "scrape_profile"
    /\ input \in [doc : Docs, include_all : BOOLEAN]
    /\ output = <<>> /\ returned = FALSE

\* data = scrape_profile(driver, link, include_all_emails) (line 663)
CallScrapeProfile ==
    /\ pc = "fn" /\ fn = "scrape_profile" /\ ~returned
    /\ output' = scrape_profile(input.doc, input.include_all)
    /\ returned' = TRUE
    /\ UNCHANGED <<fn, input>>
    /\ FnFrame

ProfileNext == CallScrapeProfile

ProfileSpec == ProfileInit /\ [][ProfileNext]_vars

\* ------------------------------------- extract_emails_by_regex, called
\* on its own.  A text is a sequence of symbols: the words "xy", "Xy",
\* "at" and "dot" (letters only, two at least), and the characters and
\* tokens "@", ".", " ", "[dot]".  No match of the three patterns begins,
\* ends or is split inside one of these symbols, so that matching these
\* sequences symbol by symbol is matching their characters.
Words == {"xy", "Xy", "at", "dot"}
Symbols == Words \cup {"@", ".", " ", "[dot]"}
PlainSymbols == {"xy", "@", ".", " "}

\* one quantified item of a pattern: a set of symbols, taken once
\* (min = 1, many = FALSE), one or more times, or zero or more times
Item(cls, min, many) == [cls |-> cls, min |-> min, many |-> many]

\* [a-zA-Z0-9._%+-]+ and [a-zA-Z0-9.-]+ on these symbols, and [a-zA-Z]{2,}
LocalPart == Item(Words \cup {"."}, 1, TRUE)
DomainPart == Item(Words \cup {"."}, 1, TRUE)
TopLevel == Item(Words, 1, TRUE)
Spaces == Item({" "}, 0, TRUE)

\* EMAIL_PATTERNS (lines 53-57), re.IGNORECASE
EMAIL_PATTERNS ==
    << <<LocalPart, Item({"@"}, 1, FALSE), DomainPart, Item({"."}, 1, FALSE),
         TopLevel>>,
       <<LocalPart, Item({" ", "@"}, 1, TRUE), DomainPart,
         Item({" ", "."}, 1, TRUE), TopLevel>>,
       <<LocalPart, Spaces, Item({"at", "@"}, 1, FALSE), Spaces, DomainPart,
         Spaces, Item({"dot", ".", "[dot]"}, 1, FALSE), Spaces, TopLevel>> >>

\* the end (index of the symbol after it) of the match of items j.. of
\* pattern p that begins at symbol s of text t, 0 when there is none: each
\* item is greedy and gives back symbols until the rest matches
RECURSIVE MatchFrom(_, _, _, _)
MatchFrom(t, s, p, j) ==
    IF j > Len(p) THEN s
    ELSE LET most == IF p[j].many THEN Len(t) - s + 1 ELSE 1
             ns == {n \in p[j].min..most :
                      /\ s + n - 1 <= Len(t)
                      /\ \A q \in s..(s + n - 1) : t[q] \in p[j].cls
                      /\ MatchFrom(t, s + n, p, j + 1) # 0}
         IN IF ns = {} THEN 0
            ELSE MatchFrom(t, s + (CHOOSE n \in ns : \A m \in ns : m <= n),
                           p, j + 1)

\* pattern.findall(text) from symbol s on: the leftmost match, then the
\* matches of the text after it
RECURSIVE findall(_, _, _)
findall(p, t, s) ==
    IF s > Len(t) THEN <<>>
    ELSE LET e == MatchFrom(t, s, p, 1)
         IN IF e = 0 THEN findall(p, t, s + 1)
            ELSE <<SubSeq(t, s, e - 1)>> \o findall(p, t, e)

\* str.lower() and str.replace(old, new)
lower(t) == [n \in 1..Len(t) |-> IF t[n] = "Xy" THEN "xy" ELSE t[n]]

RECURSIVE replace(_, _, _)
replace(t, old, new) ==
    IF Len(t) < Len(old) THEN t
    ELSE IF SubSeq(t, 1, Len(old)) = old
    THEN new \o replace(SubSeq(t, Len(old) + 1, Len(t)), old, new)
    ELSE <<t[1]>> \o replace(Tail(t), old, new)

\* lines 208-214
cleaned(match) ==
    replace(replace(replace(replace(lower(match),
        <<" ", "at", " ">>, <<"@">>),
        <<"[at]">>, <<"@">>),
        <<" ", "dot", " ">>, <<".">>),
        <<"[dot]">>, <<".">>)

\* cleaned.split("@", 1)[1] if "@" in cleaned else "" (line 215)
domain_part(c) ==
    IF "@" \in Range(c) THEN SubSeq(c, Pos(c, "@") + 1, Len(c)) ELSE <<>>

\* the test of line 216 but for `cleaned not in found`
accepted(c) == "@" \in Range(c) /\ "." \in Range(domain_part(c))

\* the inner loop (lines 207-217) over the matches ms, from match n on
RECURSIVE add_matches(_, _, _)
add_matches(found, ms, n) ==
    IF n > Len(ms) THEN found
    ELSE LET c == cleaned(ms[n])
         IN add_matches(IF accepted(c) /\ c \notin Range(found)
                        THEN Append(found, c) ELSE found,
                        ms, n + 1)

\* extract_emails_by_regex (lines 203-218)
extract_emails_by_regex(text) ==
    add_matches(
        add_matches(
            add_matches(<<>>, findall(EMAIL_PATTERNS[1], text, 1), 1),
            findall(EMAIL_PATTERNS[2], text, 1), 1),
        findall(EMAIL_PATTERNS[3], text, 1), 1)

RegexInit ==
    /\ fnIdle
    /\ fn = "extract_emails_by_regex"
    /\ input \in SeqsUpTo(Symbols, MaxTextLen)
                  \cup SeqsUpTo(PlainSymbols, MaxPlainLen)
    /\ output = <<>> /\ returned = FALSE

\* emails = extract_emails_by_regex(page_source) (line 419)
CallExtractEmailsByRegex ==
    /\ pc = "fn" /\ fn = "extract_emails_by_regex" /\ ~returned
    /\ output' = extract_emails_by_regex(input)
    /\ returned' = TRUE
    /\ UNCHANGED <<fn, input>>
    /\ FnFrame

RegexNext == CallExtractEmailsByRegex

RegexSpec == RegexInit /\ [][RegexNext]_vars

\* ------------------------------------------- export_to_csv, called on
\* its own.  A text value is a sequence of characters; the input is the
\* alumni table of the database file, in rowid order.
Chars == {"a", "B", ",", "\"", "1", "2", "0", "4", "9", "e", "@", "N", "Y"}

\* the byte of a character, which SQLite's default collation (BINARY)
\* compares
Code(c) ==
    CASE c = "\"" -> 34 [] c = "," -> 44 [] c = "0" -> 48 [] c = "1" -> 49
      [] c = "2" -> 50 [] c = "4" -> 52 [] c = "9" -> 57 [] c = "@" -> 64
      [] c = "B" -> 66 [] c = "N" -> 78 [] c = "Y" -> 89 [] c = "a" -> 97
      [] c = "e" -> 101

\* a <= b for two TEXT values (memcmp, the shorter first on a tie)
RECURSIVE TextLeq(_, _)
TextLeq(a, b) ==
    IF a = <<>> THEN TRUE
    ELSE IF b = <<>> THEN FALSE
    ELSE IF a[1] = b[1] THEN TextLeq(Tail(a), Tail(b))
    ELSE Code(a[1]) < Code(b[1])

\* the rows write_row can have stored (lines 114-121): the email is never
\* empty, the class year is empty or four digits, any other field may be
\* empty
ExportNames == {<<"B">>, <<"a">>, <<"a", ",", "\"">>}
ExportYears == {<<>>, <<"1", "9", "9", "9">>, <<"2", "0", "0", "4">>}
ExportCities == {<<>>, <<"N", "Y">>}
AlumniRows ==
    {[profile_url |-> u, name |-> n, email |-> <<"e", "@", "a">>,
      linkedin |-> <<>>, city |-> c, state |-> c, industry |-> <<>>,
      work_title |-> <<>>, firm_name |-> <<>>, class_year |-> y] :
        u \in Urls, n \in ExportNames, c \in ExportCities, y \in ExportYears}

\* profile_url TEXT UNIQUE (line 89)
AlumniTables ==
    {t \in SeqsUpTo(AlumniRows, NumUrls) :
        \A m, n \in 1..Len(t) : m # n => t[m].profile_url # t[n].profile_url}

\* SELECT name, email, ... class_year FROM alumni (lines 152-153)
Select(r) ==
    <<r.name, r.email, r.linkedin, r.city, r.state, r.industry,
      r.work_title, r.firm_name, r.class_year>>

\* ORDER BY name alone
order_by_name(a, b) == TextLeq(a.name, b.name)

\* ORDER BY class_year, name (line 155): a may stand before b
order_by(a, b) ==
    IF a.class_year = b.class_year THEN TextLeq(a.name, b.name)
    ELSE TextLeq(a.class_year, b.class_year)

\* cursor.fetchall() (line 158): the selected rows in any of the orders
\* the ORDER BY allows (rows that tie come in either order)
fetchall(t) ==
    {[n \in 1..Len(t) |-> Select(t[p[n]])] :
        p \in {q \in [1..Len(t) -> 1..Len(t)] :
                 /\ \A m, n \in 1..Len(t) : m # n => q[m] # q[n]
                 /\ \A n \in 1..(Len(t) - 1) : order_by(t[q[n]], t[q[n + 1]])}}

\* csv.writer(f) with its defaults (line 162): delimiter ",", quotechar
\* '"' doubled inside a quoted field, QUOTE_MINIMAL, lineterminator "\r\n"
NeedsQuotes == {",", "\"", "\r", "\n"}

RECURSIVE doubled(_)
doubled(f) ==
    IF f = <<>> THEN <<>>
    ELSE (IF f[1] = "\"" THEN <<"\"", "\"">> ELSE <<f[1]>>)
            \o doubled(Tail(f))

csv_field(f) ==
    IF Range(f) \cap NeedsQuotes # {} THEN <<"\"">> \o doubled(f) \o <<"\"">>
    ELSE f

RECURSIVE csv_join(_, _)
csv_join(row, n) ==
    IF n > Len(row) THEN <<>>
    ELSE (IF n > 1 THEN <<",">> ELSE <<>>) \o csv_field(row[n])
            \o csv_join(row, n + 1)

writerow(row) == csv_join(row, 1) \o <<"\r", "\n">>

RECURSIVE writerows(_, _)
writerows(rs, n) ==
    IF n > Len(rs) THEN <<>> ELSE writerow(rs[n]) \o writerows(rs, n + 1)

\* line 163; a header name is one character of the file, none of them
\* one that needs quotes
Header ==
    << <<"Name">>, <<"Email">>, <<"LinkedIn">>, <<"City">>, <<"State">>,
       <<"Industry">>, <<"Work Title">>, <<"Firm Name">>, <<"Class Year">> >>

\* the file export_to_csv leaves when fetchall returned rs (lines 161-164)
csv_file(rs) == writerow(Header) \o writerows(rs, 1)

\* csv.reader on one row of the text t, from character n on, inside quotes
\* or not, with the field and the row read so far: the row and the place
\* of the character after it
RECURSIVE read_row(_, _, _, _, _)
read_row(t, n, inq, fld, row) ==
    IF n > Len(t) THEN [row |-> Append(row, fld), next |-> n]
    ELSE IF inq
    THEN IF t[n] # "\"" THEN read_row(t, n + 1, TRUE, Append(fld, t[n]), row)
         ELSE IF n < Len(t) /\ t[n + 1] = "\""
         THEN read_row(t, n + 2, TRUE, Append(fld, "\""), row)
         ELSE read_row(t, n + 1, FALSE, fld, row)
    ELSE IF t[n] = "\"" /\ fld = <<>> THEN read_row(t, n + 1, TRUE, fld, row)
    ELSE IF t[n] = "," THEN read_row(t, n + 1, FALSE, <<>>, Append(row, fld))
    ELSE IF t[n] = "\r" /\ n < Len(t) /\ t[n + 1] = "\n"
    THEN [row |-> Append(row, fld), next |-> n + 2]
    ELSE read_row(t, n + 1, FALSE, Append(fld, t[n]), row)

\* the rows csv.reader reads from character n of the text t on
RECURSIVE reader(_, _)
reader(t, n) ==
    IF n > Len(t) THEN <<>>
    ELSE LET r == read_row(t, n, FALSE, <<>>, <<>>)
         IN <<r.row>> \o reader(t, r.next)

ExportInit ==
    /\ fnIdle
    /\ fn = "export_to_csv"
    /\ input \in AlumniTables
    /\ output = <<>> /\ returned = FALSE

\* export_to_csv(args.db, args.export_file) (line 771)
CallExportToCsv ==
    /\ pc = "fn" /\ fn = "export_to_csv" /\ ~returned
    /\ \E rs \in fetchall(input) : output' = csv_file(rs)
    /\ returned' = TRUE
    /\ UNCHANGED <<fn, input>>
    /\ FnFrame

ExportNext == CallExportToCsv

ExportSpec == ExportInit /\ [][ExportNext]_vars

\* ================================================================ claims

\* C1: write_row called on an open writer never raises; afterwards exactly
\* one row has the given profile_url and get_total_count() grew by at most
\* one; when the profile_url was already stored the call returns False and
\* leaves every stored row as it was; no two rows ever share a profile_url.
C1_WriteRowIdempotent ==
    [][(op' = "write_row" /\ conn = "open") =>
          /\ ~raised'
          /\ Cardinality({n \in 1..Len(rows') :
                             rows'[n].profile_url = arg'}) = 1
          /\ get_total_count(rows', pending')
                <= get_total_count(rows, pending) + 1
          /\ (arg' \in UrlsOf(rows) => ret' = "False" /\ rows' = rows)
          /\ NoDupUrls(rows')]_vars

\* a second write_row for a stored profile_url has returned False
C1_Witness ==
    /\ op = "write_row" /\ ret = "False" /\ ~raised
    /\ arg \in UrlsOf(rows) /\ Len(rows) >= 2

\* C2: while scrape_profile and the insert run for a link, that link was
\* not in the store when its listing page was filtered, in every run.
C2_NoScrapeOfKnownLink ==
    pc \in {"in_profile", "got_data", "w_insert", "w_commit", "w_count",
            "w_ret", "after_write"}
        => link \notin known

\* a resumed run scrapes a new link of a page that also holds a known one
C2_Witness ==
    /\ run = 2 /\ pc = "in_profile"
    /\ known # {} /\ Len(new_links) < Len(profile_links)

\* C3: on the scenario-A site with target 3, a run in which every profile
\* yields an email and nothing fails ends with exactly 3 stored records,
\* all inserted by the first run; the second run inserts none.
C3_ScenarioA ==
    (pc = "done" /\ faultFree) =>
        /\ Len(rows) = 3
        /\ run = 1 => collected = 3
        /\ run = 2 => collected = 0

\* the second run has finished without inserting anything
C3_Witness ==
    /\ pc = "done" /\ faultFree /\ run = 2
    /\ collected = 0 /\ Len(rows) = 3

\* C4: every profile_url for which write_row returned True is in the
\* database file, at every moment, so also after a signal or a kill and
\* when the file is opened again.
C4_AckedRowsDurable == acked \subseteq UrlsOf(rows)

\* the process was killed after an insert was acknowledged
C4_Witness == pc = "killed" /\ acked # {}

\* C5 (as claimed): a signal that arrives while a profile is scraped only
\* sets the interrupted flag: the main thread stays where it is and the
\* store stays open.
C5_SignalOnlySetsFlag ==
    [][(pc = "in_profile" /\ ~sig /\ sig') =>
          /\ interrupted'
          /\ pc' = pc
          /\ conn' = conn]_vars

\* C6 (as claimed): SQLiteWriter.close is never called twice in a run,
\* and a run that opened the store and ended normally or through the
\* signal handler called it once.
C6_CloseExactlyOnce ==
    /\ closeCalls <= 1
    /\ (pc \in {"done", "exited"} /\ conn # "none") => closeCalls = 1

\* C7 (as claimed): a call of SQLiteWriter.close on a writer whose
\* connection is already closed raises nothing and changes nothing.
C7_CloseIdempotent ==
    [][(closeCalls' = closeCalls + 1 /\ conn = "closed") =>
          /\ closeErr' = closeErr
          /\ UNCHANGED storeVars]_vars

\* C8 (as claimed): once collected_emails has reached the target no
\* profile is scraped, no listing page is read and no page advance is made.
C8_NoFetchAfterTarget ==
    [][collected >= target => ~(ScrapeBegin \/ WaitLinks \/ ClickNext)]_vars

\* C8 (amended): once collected_emails has reached the target no profile
\* is scraped and no listing page is read for links; at most one
\* click_next_page call is still made.
C8_OneAdvanceAfterTarget ==
    /\ [][collected >= target => ~(ScrapeBegin \/ WaitLinks)]_vars
    /\ [](lateClicks <= 1)

\* the target was reached and the controller then advanced a page
C8_Witness == lateClicks = 1 /\ pc = "while" /\ collected >= target

\* C9: collected_emails never exceeds the target, and the rows a run has
\* added to the table never exceed the target.
C9_CollectedAtMostTarget ==
    /\ collected <= target
    /\ conn # "none" => Len(rows) - existing_count <= target

\* the target is reached while links of the page are still unprocessed
C9_Witness ==
    /\ pc = "for" /\ collected = target /\ i <= Len(new_links)

\* how many steps of the main thread are left before it is done
Rank(p) ==
    CASE p = "check_links" -> 6
      [] p = "finally" -> 5
      [] p = "f_total" -> 4
      [] p = "f_close" -> 3
      [] p = "f_clear" -> 2
      [] p = "quit" -> 1
      [] p \in EndPcs -> 0
      [] OTHER -> 7

\* C10: after the wait for a profile link timed out, or the listing
\* returned no link, every step takes the main thread closer to the end of
\* the run: it is done after at most six steps, with no page advance and
\* no profile scraped.
C10_NoLinksEndsRun ==
    /\ [](exhausted => Rank(pc) <= 6)
    /\ [][(exhausted /\ pc \notin EndPcs) => Rank(pc') < Rank(pc)]_vars

\* a run ended normally, without a signal, on a listing without links
C10_Witness == exhausted /\ pc = "done" /\ ~sig

\* a step of the main thread: no signal is delivered, nothing kills it
MainStep == sig' = sig /\ pc' # "killed"

ForPcs == {"for", "scrape", "in_profile", "got_data", "w_insert",
           "w_commit", "w_count", "w_ret", "after_write", "back"}

\* C12: an Exception raised by scrape_profile or by write_row takes the
\* controller to driver.back() with the loop as it was (same link list,
\* same index, same listing page, nothing counted); from there the for
\* loop goes on with the next index, scrapes the next link if there is
\* one, and goes to click_next_page after the last one.
C12_ProfileFaultContinues ==
    /\ [][(ScrapeFault \/ WriteFault) =>
             /\ pc' = "back"
             /\ ~interrupted' /\ collected' < target
             /\ UNCHANGED <<i, new_links, shown, collected, rows>>]_vars
    /\ [][(pc = "back" /\ MainStep /\ ~BackFault) =>
             /\ pc' = "for" /\ i' = i + 1
             /\ UNCHANGED <<new_links, shown>>]_vars
    /\ [][(pc = "for" /\ MainStep /\ ~interrupted /\ collected < target) =>
             /\ pc' = IF i <= Len(new_links) THEN "scrape" ELSE "click"
             /\ UNCHANGED <<i, new_links, shown>>]_vars
    /\ [][(pc = "scrape" /\ MainStep) =>
             /\ pc' = "in_profile"
             /\ UNCHANGED <<i, new_links, shown>>]_vars

\* write_row failed for the first link of page 1 and the second link of
\* the page is being scraped
C12_Witness ==
    /\ storeFault /\ pc = "in_profile" /\ i = 2
    /\ run = 1 /\ page = 1 /\ collected = 0

\* C13: every row of the table, committed or not, has a non-empty email;
\* write_row is entered only with a non-empty email; after scrape_profile
\* returned, write_row is called exactly when the email is non-empty, and
\* otherwise the store is left untouched.
C13_StoredEmailNonEmpty ==
    /\ [](\A n \in 1..Len(Visible(rows, pending)) :
             Visible(rows, pending)[n].email # NoEmail)
    /\ [](pc \in {"w_insert", "w_commit", "w_count", "w_ret"}
             => data # NoEmail)
    /\ [][(pc = "got_data" /\ MainStep) =>
             /\ (pc' = "w_insert") = (data # NoEmail)
             /\ (data = NoEmail => pc' = "back")
             /\ UNCHANGED storeVars]_vars

\* the first profile of the page was stored, the second had no email and
\* was discarded
C13_Witness ==
    /\ pc = "back" /\ i = 2 /\ data = NoEmail /\ ~storeFault
    /\ run = 1 /\ Len(rows) = 1 /\ collected = 1

\* C14: the links of a page are collected in document order; new_links
\* keeps that order; the for loop takes them by increasing index; the
\* table only grows at its end (ids increase); and of two rows added in
\* this run the later one belongs to a link processed later: a row of the
\* page at hand follows every row of an earlier page and every row of a
\* link with a smaller index, and no row is ahead of the loop index.
C14_InsertionFollowsListing ==
    /\ []((pc = "check_links" /\ ~sig)
             => profile_links = FirstSeen(PageAt(shown)))
    /\ [](pc \in ForPcs \cup {"check_new", "click"}
             => new_links = SelectSeq(profile_links,
                                      LAMBDA l : l \in Range(new_links)))
    /\ [][(pc \in ForPcs /\ pc' \in ForPcs) =>
             /\ new_links' = new_links
             /\ i' = IF pc = "back" THEN i + 1 ELSE i]_vars
    /\ [][IsPrefix(rows, rows')]_vars
    /\ [](LET R == Visible(rows, pending)
              P(n) == Pos(new_links, R[n].profile_url)
          IN \A n \in (existing_count + 1)..Len(R) :
                /\ P(n) <= i
                /\ \A m \in (existing_count + 1)..(n - 1) :
                      P(m) # 0 => P(m) < P(n))

\* two links of one page were stored, in the order of the page
C14_Witness ==
    /\ pc = "after_write" /\ run = 1 /\ Len(rows) = 2 /\ Len(new_links) = 2
    /\ rows[1].profile_url = new_links[1]
    /\ rows[2].profile_url = new_links[2]

\* C19 (as claimed): with an end page configured the browser never shows
\* a listing page above it, and the first listing page the loop reads is
\* the configured start page.
C19_PageBounds ==
    /\ END_PAGE # NoEndPage => shown <= END_PAGE
    /\ (pc = "wait" /\ page = 1) => shown = START_PAGE

\* scrape_profile has returned from a page whose marker element never
\* showed up / did show up
TimedOut == fn = "scrape_profile" /\ returned /\ ~input.doc.marker
Extracted == fn = "scrape_profile" /\ returned /\ input.doc.marker

\* scrape_profile returned from a page whose email blocks and source were
\* read without an exception, so that line 543 was not reached
ExtractedAll ==
    Extracted /\ ~input.doc.blocks_raise /\ ~input.doc.source_raises

\* C15 (as claimed): after a timeout of the wait for the marker element
\* every field of the returned record is empty.
C15_TimeoutRecordEmpty ==
    TimedOut =>
        /\ output.name = <<>> /\ output.email = NoEmail
        /\ output.linkedin = <<>> /\ output.city = <<>>
        /\ output.state = <<>> /\ output.industry = <<>>
        /\ output.work_title = <<>> /\ output.firm_name = <<>>
        /\ output.class_year = <<>>

\* C15 (amended): after a timeout of the wait for the marker element the
\* returned record has the name "(unknown)" and every other field empty;
\* its email being empty, the test of line 664 fails for it, so that
\* write_row is not called.
C15_TimeoutRecordInitial ==
    TimedOut =>
        /\ output.name = Unknown /\ output.email = NoEmail
        /\ output.linkedin = <<>> /\ output.city = <<>>
        /\ output.state = <<>> /\ output.industry = <<>>
        /\ output.work_title = <<>> /\ output.firm_name = <<>>
        /\ output.class_year = <<>>
        /\ ~has_email(output.email)

\* the wait timed out on a page that had a name, an email, a class year
\* and other fields to find
C15_Witness ==
    /\ TimedOut
    /\ input.doc.name # <<>> /\ input.doc.mailtos # <<>>
    /\ input.doc.c1 # <<>> /\ input.doc.other # <<>>

\* the emails of a page, in first-seen order, primary first: those of the
\* email blocks, or those of the regex scan when the blocks hold none
PageEmails(doc) ==
    IF extract_emails_from_blocks(doc.mailtos) # <<>>
    THEN extract_emails_from_blocks(doc.mailtos)
    ELSE doc.regex_found

\* the emails a record holds
EmailsKept(rec) == IF rec.email = NoEmail THEN <<>> ELSE <<rec.email>>

\* C16 (as claimed): in primary-only mode the record holds the first email
\* of the page and no other; in include-all mode it holds every email of
\* the page, in first-seen order.
C16_IncludeAllKeepsAll ==
    ExtractedAll =>
        EmailsKept(output) =
            IF input.include_all THEN PageEmails(input.doc)
            ELSE IF PageEmails(input.doc) = <<>> THEN <<>>
            ELSE <<PageEmails(input.doc)[1]>>

\* C20: when the class-year block is reached and no heuristic that ran
\* raised, the class year is what the
\* first of Methods 1, 2, 3 with a non-empty result yielded; when all
\* three yielded nothing, a name ending in 'YY gives 19YY for YY >= 50 and
\* 20YY for YY < 50, and a name without suffix gives nothing; a class year
\* that none of the three yielded appears only when all three were empty.
C20_ClassYearChain ==
    ExtractedAll =>
        LET d == input.doc
            early == <<d.c1, d.c2, d.c3>>
            cy == output.class_year
            ran(j) == \A m \in 1..(j - 1) : early[m] = <<>>
            allEmpty == \A j \in 1..3 : early[j] = <<>>
        IN /\ \A j \in 1..3 :
                (ran(j) /\ early[j] \notin {<<>>, WebDriverException})
                    => cy = early[j]
           /\ \A a, b \in Range(DigitChars) :
                (allEmpty /\ output.name = <<"J", " ", "'", a, b>>)
                    => cy = IF a \in {"5", "6", "7", "8", "9"}
                            THEN <<"1", "9", a, b>>
                            ELSE <<"2", "0", a, b>>
           /\ (allEmpty /\ output.name \in {PlainName, Unknown}) => cy = <<>>
           /\ (cy # <<>> /\ cy \notin Range(early)) => allEmpty

\* the three selectors found nothing and the name ends in '04
C20_Witness ==
    /\ Extracted
    /\ input.doc.c1 = <<>> /\ input.doc.c2 = <<>> /\ input.doc.c3 = <<>>
    /\ output.name = <<"J", " ", "'", "0", "4">>
    /\ output.class_year = <<"2", "0", "0", "4">>

\* how many symbols of the text t are x
Count(t, x) == Cardinality({n \in 1..Len(t) : t[n] = x})

\* C17 (as claimed): every string extract_emails_by_regex returns holds
\* exactly one "@", at least one "." after it, and no uppercase letter.
C17_CleanedEmailShape ==
    (fn = "extract_emails_by_regex" /\ returned) =>
        \A n \in 1..Len(output) :
            /\ Count(output[n], "@") = 1
            /\ "." \in Range(domain_part(output[n]))
            /\ "Xy" \notin Range(output[n])

\* export_to_csv has returned
Exported == fn = "export_to_csv" /\ returned

\* the rows of the exported file after its first
ExportedRows == Tail(reader(output, 1))

\* how many members of the sequence s are x
Copies(s, x) == Cardinality({n \in 1..Len(s) : s[n] = x})

\* the rows of a file: a header row, then as many rows as records, in
\* nondecreasing (class_year, name) order
ExportLayout ==
    LET file == reader(output, 1)
    IN /\ Len(file) = Len(input) + 1
       /\ file[1] = Header
       /\ \A n \in 1..(Len(file) - 1) : Len(file[n + 1]) = 9
       /\ \A n \in 2..(Len(file) - 1) :
            \/ /\ file[n][9] # file[n + 1][9]
               /\ TextLeq(file[n][9], file[n + 1][9])
            \/ /\ file[n][9] = file[n + 1][9]
               /\ TextLeq(file[n][1], file[n + 1][1])

\* the Profile Record the store holds: the identity key and the nine
\* other columns (lines 114-121)
StoredRecord(r) == <<r.profile_url>> \o Select(r)

\* C18 (as claimed): after one header row the exported file holds one row
\* per store record, the multiset of exported records is the multiset of
\* stored records, and the rows are in nondecreasing (class_year, name)
\* order.
C18_ExportRoundTrip ==
    Exported =>
        /\ ExportLayout
        /\ \A n \in 1..Len(input) :
             Copies(ExportedRows, StoredRecord(input[n]))
               = Copies([m \in 1..Len(input) |-> StoredRecord(input[m])],
                        StoredRecord(input[n]))

\* C18 (amended): after one header row the exported file holds one row per
\* store record; the multiset of exported rows is the multiset of the
\* records' name, email, linkedin, city, state, industry, work_title,
\* firm_name and class_year, the profile_url not being exported; the rows
\* are in nondecreasing (class_year, name) order of their bytes.
C18_ExportSelectedFields ==
    Exported =>
        /\ ExportLayout
        /\ \A n \in 1..Len(input) :
             Copies(ExportedRows, Select(input[n]))
               = Copies([m \in 1..Len(input) |-> Select(input[m])],
                        Select(input[n]))

\* two records stored against the order of the export, the later one with
\* a name that needs quotes; the export has them the other way round
C18_Witness ==
    /\ Exported
    /\ Len(input) = 2
    /\ input[1].class_year = <<"2", "0", "0", "4">>
    /\ input[2].class_year = <<"1", "9", "9", "9">>
    /\ input[2].name = <<"a", ",", "\"">>
    /\ ExportedRows = <<Select(input[2]), Select(input[1])>>

\* every link the page gave is in the store, and there is one at least
NoneNew ==
    /\ profile_links # <<>>
    /\ \A n \in 1..Len(profile_links) :
          profile_links[n] \in UrlsOf(rows \o pending)

\* C22: in a run no signal has reached, a listing page with links of which
\* none is new is not taken for the end of the directory: the next step
\* after the filter is the page advance with no profile scraped, and from
\* the advance the run either goes on with the next page or, when the
\* advance failed, ends.
C22_NoNewLinksStillAdvances ==
    /\ [][(pc = "check_new" /\ NoneNew /\ ~sig /\ MainStep)
             => pc' = "click" /\ ~exhausted']_vars
    /\ [][(pc = "click" /\ NoneNew /\ new_links = <<>> /\ ~sig /\ MainStep)
             => \/ pc' = "finally" /\ shown' = shown
                \/ pc' = "while" /\ page' = page_plus_1(page)]_vars
    /\ [][(pc' = "finally" /\ pc # "finally" /\ NoneNew /\ ~sig /\ MainStep
              /\ pc \in {"check_new", "for", "click"})
             => pc = "click"]_vars

\* a resumed run is about to advance from a page it knows every link of
C22_Witness ==
    /\ pc = "click" /\ run = 2 /\ ~sig /\ NoneNew /\ new_links = <<>>
    /\ collected = 0 /\ Len(profile_links) = 2

\* C23: at the head of the while loop and of the for loop, the open store
\* holds existing_count + collected_emails records; collected_emails grows
\* by one at a time, and only for a link that was not in the store when
\* its page was filtered and whose record this run has inserted.
C23_CountIsExistingPlusSession ==
    /\ []((pc \in {"while", "for"} /\ conn = "open")
             => Len(rows \o pending) = existing_count + collected)
    /\ [][(collected' # collected /\ run' = run)
             => /\ collected' = collected + 1
                /\ link \notin known
                /\ \E n \in (existing_count + 1)..Len(rows) :
                      rows[n].profile_url = link]_vars

\* a resumed run that found one record has stored one more and is back at
\* the head of the while loop
C23_Witness ==
    /\ pc = "while" /\ run = 2 /\ conn = "open" /\ page = 2
    /\ existing_count = 1 /\ collected = 1 /\ Len(rows) = 2

\* C26 (as claimed): when a signal reaches an open store, the total the
\* handler reports, row_count + existing_count, is the number of records
\* in the store once the handler has closed it.
C26_ReportedTotalIsStoreCount ==
    [][(sig' /\ ~sig /\ writer_instance /\ conn = "open")
          => row_count + existing_count = Len(rows')]_vars

\* the positions of scrape_directory at which its next step is a call of
\* is_scraped, write_row, get_total_count or close
StoreCallPcs == {"filter", "w_insert", "w_commit", "f_total", "f_close"}

\* C27 (as claimed): once signal_handler has closed the store,
\* scrape_directory makes no call of is_scraped, write_row,
\* get_total_count or close.
C27_NoStoreCallAfterHandlerClose ==
    [][(sig /\ conn = "closed" /\ ~writer_instance /\ MainStep)
          => /\ pc \notin StoreCallPcs
             /\ ~(pc = "while"
                    /\ while_guard(interrupted, collected, target))]_vars

\* C28: the INSERT of write_row never meets a profile_url the store holds,
\* every write_row call that returns has returned True, and no two records
\* of the store share a profile_url.
C28_WriteRowNeverDuplicate ==
    /\ [][(pc = "w_insert" /\ conn = "open" /\ MainStep)
             => link \notin UrlsOf(rows \o pending)]_vars
    /\ [](pc = "after_write" => inserted)
    /\ [](\A m, n \in 1..Len(rows \o pending) :
             (rows \o pending)[m].profile_url
                = (rows \o pending)[n].profile_url => m = n)

\* a resumed run has written the one new link of a page of two links, the
\* other being in the store
C28_Witness ==
    /\ pc = "after_write" /\ inserted /\ run = 2 /\ existing_count = 1
    /\ Len(profile_links) = 2 /\ Len(new_links) = 1 /\ Len(rows) = 2

\* C21 (as claimed): a run that has entered its loop ends, whatever the
\* listing serves and however often the page advance succeeds.
C21_StuckPaginationEnds == (pc = "while") ~> (pc \in EndPcs)

\* what a strategy yields, an exception being no candidate
Candidate(c) == IF c = WebDriverException THEN <<>> ELSE c

\* the first text of the sequence ts that is not empty, <<>> when all are
FirstNonEmpty(ts) ==
    IF \A n \in 1..Len(ts) : ts[n] = <<>> THEN <<>>
    ELSE ts[CHOOSE n \in 1..Len(ts) :
                ts[n] # <<>> /\ \A m \in 1..(n - 1) : ts[m] = <<>>]

\* C24 (as claimed): a strategy that raises counts as one without a
\* candidate and nothing else changes: the name found is kept, the email
\* is the first of the blocks or else of the regex scan, the class year
\* is the first non-empty result of its four heuristics, and the other
\* fields hold what their own lookups found.
C24_FaultIsNoCandidate ==
    Extracted =>
        LET d == input.doc
            blocks == IF d.blocks_raise THEN <<>>
                      ELSE extract_emails_from_blocks(d.mailtos)
            found == IF d.source_raises THEN <<>> ELSE d.regex_found
            emails == IF blocks # <<>> THEN blocks ELSE found
            inSource == IF d.source_raises THEN <<>> ELSE d.source_link
        IN /\ output.name = (IF d.name # <<>> THEN d.name ELSE Unknown)
           /\ output.email = (IF emails = <<>> THEN NoEmail ELSE emails[1])
           /\ output.class_year =
                FirstNonEmpty(<<Candidate(d.c1), Candidate(d.c2),
                                Candidate(d.c3), suffix_year(output.name)>>)
           /\ output.city = d.other /\ output.state = d.other
           /\ output.work_title = d.other /\ output.firm_name = d.other
           /\ output.industry = d.other
           /\ (inSource # <<>> \/ Candidate(d.anchor_href) # <<>>)
                 => output.linkedin # <<>>

\* C25 (as claimed): the linkedin field of a record scrape_profile returns
\* does not end with "/".
C25_NoTrailingSlash ==
    (fn = "scrape_profile" /\ returned) =>
        \/ output.linkedin = <<>>
        \/ output.linkedin[Len(output.linkedin)] # "/"

====
